---- MODULE Spec2Model ----
(***************************************************************************)
(* Model of the SIGLENT SDS1072CML driver                                  *)
(* (pymeasure/instruments/siglenttechnologies/siglent_sds1072cml.py).      *)
(*                                                                         *)
(* The driver talks to the oscilloscope over one transport.  A message is  *)
(* modelled as the sequence of its tokens (the pieces between the          *)
(* separators " ", ":" and ","), so "TRSE EDGE,SR,C1,HT,OFF,HV,1" is       *)
(* <<"TRSE","EDGE","SR","C1","HT","OFF","HV","1">> and "C1:TRLV 10V" is   *)
(* <<"C1","TRLV","10","V">>.  Parsing and formatting work on tokens.       *)
(*                                                                         *)
(* The trigger cache TriggerChannel.triggerConfDict is ONE dict object,    *)
(* created at class level; every name the code binds to it (the class      *)
(* attribute, the instance attribute, the local name of set_triggerConfig, *)
(* the value returned by get_triggerConfig) refers to that same object.    *)
(* The variable triggerConfDict holds the content of that object.          *)
(*                                                                         *)
(* Each side of the driver has a specification of its own: Spec (the       *)
(* trigger channel), SpecAcq (status, wait and arm), SpecWave (get_desc    *)
(* and get_waveform), SpecCtl (the controls), SpecAll (the operations that *)
(* use the transport, together), SpecOrder (set_triggerConfig with its     *)
(* keyword arguments in order) and SpecConc (callers that interleave).     *)
(***************************************************************************)
EXTENDS Integers, Sequences, FiniteSets, TLC

VARIABLES
    inst,             \* the oscilloscope: its trigger settings and status,
                      \* its waveform and descriptor, its channel settings
    triggerConfDict,  \* content of the dict object TriggerChannel.triggerConfDict
    id,               \* the id of the channel object called, substituted
                      \* for {ch} in its commands
    pc,               \* position of the caller: "idle" or "returned"
    call,             \* the operation called last and its arguments
    log,              \* transport events of that call, in order
    ret               \* its return value (FALSE when it returns none),
                      \* or that it raised

vars == <<inst, triggerConfDict, id, pc, call, log, ret>>

----------------------------------------------------------------------------
(* Bounds and value sets *)

\* largest number of keyword arguments of one set_triggerConfig call
MaxKwargs == 2

\* longest time passed to wait, in half seconds
MaxWait == 5

Types      == {"EDGE", "GLIT"}
Sources    == {"C1", "C2"}
HoldTypes  == {"OFF", "TI"}
HoldValues == {"1.00NS"}
Slopes     == {"POS", "NEG"}
Modes      == {"AUTO", "NORM"}
Couplings  == {"AC", "DC"}
\* trigger levels, in millivolt; the instrument holds three significant digits
InstLevels == {0, 1000}
\* the sampling status of the oscilloscope, and the values of its INR register
Statuses   == {"Stop", "Ready", "Trig'd", "Armed", "Auto"}
InrValues  == {"0", "1", "8192", "8193"}

\* the values a caller passes to set_triggerConfig, per key
DesiredValues ==
    [type |-> {"GLIT"}, source |-> {"C2"}, hold_type |-> {"TI"},
     hold_value1 |-> {"1.00NS"}, level |-> {1000, 1004}, slope |-> {"NEG"},
     mode |-> {"NORM"}, coupling |-> {"DC"}]

Keys == {"type", "source", "hold_type", "hold_value1", "level", "slope", "mode", "coupling"}

----------------------------------------------------------------------------
(* dict operations *)

\* the empty dict {}
EmptyDict == [k \in {} |-> 0]

\* a mutant: keys the dict holds already keep their value
updateKeepOld(d, e) ==
    [k \in (DOMAIN d) \cup (DOMAIN e) |-> IF k \in DOMAIN d THEN d[k] ELSE e[k]]

\* dict.update(e): keys of e are added or overwritten
update(d, e) ==
    [k \in (DOMAIN d) \cup (DOMAIN e) |-> IF k \in DOMAIN e THEN e[k] ELSE d[k]]

----------------------------------------------------------------------------
(* Number formatting and parsing *)

\* "%.2e" keeps three significant digits (values are millivolt, below 10000)
Fmt2e(v) == IF v < 1000 THEN v ELSE ((v + 5) \div 10) * 10

\* the numbers that can appear on the wire
WireLevels == {Fmt2e(v) : v \in InstLevels \cup DesiredValues.level}

\* "%.2eV" % level, as the tokens <<number, unit>>
LevelTokens(v) == <<ToString(Fmt2e(v)), "V">>

\* float(text): the number a numeric token denotes
float(s) == CHOOSE n \in WireLevels : ToString(n) = s

----------------------------------------------------------------------------
(* The oscilloscope.  It holds one trigger setup (type, source, hold), one  *)
(* trigger mode, and the level, slope and coupling of the channel chSrc,   *)
(* which its TRLV?, TRSL? and TRCP? replies name and which need not be the *)
(* trigger source its TRSE? reply names.                                   *)

TriggerStates ==
    [type : Types, source : Sources, hold_type : HoldTypes, hold_value1 : HoldValues,
     chSrc : Sources, level : InstLevels, slope : Slopes, mode : Modes,
     coupling : Couplings]

\* the reply of the oscilloscope to a query
Reply(i, q) ==
    CASE q = "TRSE?" -> <<"TRSE", i.type, "SR", i.source, "HT", i.hold_type, "HV", i.hold_value1>>
      [] q = "TRLV?" -> <<i.chSrc, "TRLV", ToString(i.level), "V">>
      [] q = "TRSL?" -> <<i.chSrc, "TRSL", i.slope>>
      [] q = "TRMD?" -> <<"TRMD", i.mode>>
      [] q = "TRCP?" -> <<i.chSrc, "TRCP", i.coupling>>
      [] q = "SAST?" -> <<"SAST", i.status>>
      [] q = "INR?"  -> <<"INR", i.inr>>

\* a channel prefix the oscilloscope knows selects that channel
Chan(old, tok) == IF tok \in Sources THEN tok ELSE old

\* the oscilloscope takes over everything a set command says
Adopt(i, m) ==
    CASE m[1] = "TRSE" ->
            [i EXCEPT !.type = m[2], !.source = Chan(@, m[4]),
                      !.hold_type = m[6], !.hold_value1 = m[8]]
      [] m[1] = "TRMD" -> [i EXCEPT !.mode = m[2]]
      [] m[1] = "ARM"  -> [i EXCEPT !.status = "Armed"]
      [] m[2] = "TRLV" -> [i EXCEPT !.chSrc = Chan(@, m[1]), !.level = float(m[3])]
      [] m[2] = "TRSL" -> [i EXCEPT !.chSrc = Chan(@, m[1]), !.slope = m[3]]
      [] m[2] = "TRCP" -> [i EXCEPT !.chSrc = Chan(@, m[1]), !.coupling = m[3]]
      [] OTHER -> i

\* what the oscilloscope may do with a set command: ignore it, adopt it,
\* adopt it except for the source, or adopt it and report the level, slope
\* and coupling under the new source from then on
React(i, m) ==
    {i, Adopt(i, m)} \cup
    (IF m[1] = "TRSE"
     THEN LET a == Adopt(i, m)
          IN {[a EXCEPT !.source = i.source],
              [a EXCEPT !.chSrc = a.source]}
     ELSE {})

\* the states the oscilloscope may be in after a sequence of set commands
RECURSIVE Outcomes(_, _)
Outcomes(i, ms) ==
    IF ms = <<>> THEN {i}
    ELSE UNION {Outcomes(j, Tail(ms)) : j \in React(i, Head(ms))}

----------------------------------------------------------------------------
(* Transport events *)

W(m) == [dir |-> "w", msg |-> m]
R(m) == [dir |-> "r", msg |-> m]

----------------------------------------------------------------------------
(* TriggerChannel: the five measurements *)

\* trigger_setup: preprocess_reply drops the header, get_process picks
\* the fields 0, 2, 4 and 6 of the comma-separated rest
trigger_setup(reply) ==
    LET v == Tail(reply)
    IN [type |-> v[1], source |-> v[3], hold_type |-> v[5], hold_value1 |-> v[7]]

\* trigger_level: source is the text before ":", level the number after the
\* first space without its unit
trigger_level(reply) == [source |-> reply[1], level |-> float(reply[3])]

trigger_slope(reply) == [source |-> reply[1], slope |-> reply[3]]

trigger_mode(reply) == [mode |-> reply[2]]

trigger_coupling(reply) == [source |-> reply[1], coupling |-> reply[3]]

\* get_process of a query
Measure(q, reply) ==
    CASE q = "TRSE?" -> trigger_setup(reply)
      [] q = "TRLV?" -> trigger_level(reply)
      [] q = "TRSL?" -> trigger_slope(reply)
      [] q = "TRMD?" -> trigger_mode(reply)
      [] q = "TRCP?" -> trigger_coupling(reply)

\* a mutant: the coupling is queried before the setup
QueryOrderCouplingFirst == <<"TRCP?", "TRSE?", "TRLV?", "TRSL?", "TRMD?">>

\* the order in which get_triggerConfig asks
QueryOrder == <<"TRSE?", "TRLV?", "TRSL?", "TRMD?", "TRCP?">>

\* one measurement after the other: write the query, read the reply, update
\* the dict with the parsed reply
RECURSIVE AskAll(_, _, _)
AskAll(d, i, qs) ==
    IF qs = <<>> THEN [dict |-> d, log |-> <<>>]
    ELSE LET reply == Reply(i, Head(qs))
             rest  == AskAll(update(d, Measure(Head(qs), reply)), i, Tail(qs))
         IN [dict |-> rest.dict, log |-> <<W(<<Head(qs)>>), R(reply)>> \o rest.log]

\* get_triggerConfig on a dict object of content d: the content after the
\* call and the transport events
get_triggerConfig(d, i) == AskAll(d, i, QueryOrder)

----------------------------------------------------------------------------
(* TriggerChannel.set_triggerConfig *)

\* the keyword arguments a caller may pass
Kwargs ==
    LET full == [type : DesiredValues.type, source : DesiredValues.source,
                 hold_type : DesiredValues.hold_type,
                 hold_value1 : DesiredValues.hold_value1,
                 level : DesiredValues.level, slope : DesiredValues.slope,
                 mode : DesiredValues.mode, coupling : DesiredValues.coupling]
    IN {[k \in K |-> f[k]] :
            f \in full, K \in {S \in SUBSET Keys : Cardinality(S) <= MaxKwargs}}

\* a mutant: the level group holds the source too
setValuesSourceInLevel ==
    [setup |-> {"source", "type", "hold_type", "hold_value1"},
     level |-> {"level", "source"},
     coupling |-> {"coupling"}, slope |-> {"slope"}, mode |-> {"mode"}]

\* the key -> group map
setValues ==
    [setup |-> {"source", "type", "hold_type", "hold_value1"}, level |-> {"level"},
     coupling |-> {"coupling"}, slope |-> {"slope"}, mode |-> {"mode"}]

\* the groups, in the order of the dict setValues
GroupOrder == <<"setup", "level", "coupling", "slope", "mode">>

\* a mutant: a key counts as changed as soon as it is supplied
changedValuesSupplied(d, kwargs) == DOMAIN kwargs

\* the keys of kwargs whose value differs from the dict
changedValues(d, kwargs) == {key \in DOMAIN kwargs : d[key] # kwargs[key]}

\* a mutant: the mode group is always written
processToChangeAlwaysMode(changed) ==
    SelectSeq(GroupOrder, LAMBDA g : g = "mode" \/ setValues[g] \cap changed # {})

\* the groups with a changed member, in group order
processToChange(changed) ==
    SelectSeq(GroupOrder, LAMBDA g : setValues[g] \cap changed # {})

\* the changed keys are stored into the dict
ApplyChanges(d, kwargs, changed) ==
    [k \in DOMAIN d \cup changed |-> IF k \in changed THEN kwargs[k] ELSE d[k]]

\* a mutant: self.id is never set
NewIdKeep(old, kwargs) == old

\* the channel token of the call: self.id is set when source is supplied
NewId(old, kwargs) == IF "source" \in DOMAIN kwargs THEN kwargs.source ELSE old

\* a mutant: {ch} is replaced by the source the dict holds
setCommandDictSource(g, d, ch) ==
    CASE g = "setup"    -> <<"TRSE", d.type, "SR", d.source, "HT", d.hold_type, "HV", d.hold_value1>>
      [] g = "level"    -> <<d.source, "TRLV">> \o LevelTokens(d.level)
      [] g = "coupling" -> <<d.source, "TRCP", d.coupling>>
      [] g = "slope"    -> <<d.source, "TRSL", d.slope>>
      [] g = "mode"     -> <<"TRMD", d.mode>>

\* setCommands[g] % setProcesses[g](d), with {ch} replaced by the channel id
setCommand(g, d, ch) ==
    CASE g = "setup"    -> <<"TRSE", d.type, "SR", ch, "HT", d.hold_type, "HV", d.hold_value1>>
      [] g = "level"    -> <<ch, "TRLV">> \o LevelTokens(d.level)
      [] g = "coupling" -> <<ch, "TRCP", d.coupling>>
      [] g = "slope"    -> <<ch, "TRSL", d.slope>>
      [] g = "mode"     -> <<"TRMD", d.mode>>

\* a mutant: a name bound to the dict denotes the content the dict had when
\* the name was bound or last written through
LocalDictSnapshot(written, current) == written

\* what the local name triggerConfDict of set_triggerConfig denotes at the
\* final comparison: the name was bound to the dict get_triggerConfig
\* returned, which is the cache object itself, so it denotes the current
\* content of that object and not the content it had when the commands were
\* written
LocalDict(written, current) == current

\* the call after its first read: the channel token, the changed keys stored
\* into the dict and the set commands
PlanFrom(first, ch, kwargs) ==
    LET newid   == NewId(ch, kwargs)
        changed == changedValues(first.dict, kwargs)
        procs   == processToChange(changed)
        written == ApplyChanges(first.dict, kwargs, changed)
    IN [dict |-> written,
        id   |-> newid,
        cmds |-> [n \in 1..Len(procs) |-> setCommand(procs[n], written, newid)],
        log  |-> first.log]

\* a mutant: a dict filled by an earlier call is trusted and not read again
SetPlanFromCache(d, ch, kwargs, i) ==
    PlanFrom(IF d = EmptyDict THEN get_triggerConfig(d, i) ELSE [dict |-> d, log |-> <<>>],
             ch, kwargs)

\* the call up to the loop that writes, on a dict object of content d: the
\* dict is read from the oscilloscope first
SetPlan(d, ch, kwargs, i) == PlanFrom(get_triggerConfig(d, i), ch, kwargs)

\* the rest of the call, for an oscilloscope that is in state j after the
\* set commands: they are written, the dict is read again and compared
SetFinish(p, j) ==
    LET second == get_triggerConfig(p.dict, j)
    IN [dict |-> second.dict,
        log  |-> p.log \o [n \in 1..Len(p.cmds) |-> W(p.cmds[n])] \o second.log,
        flag |-> second.dict = LocalDict(p.dict, second.dict)]

----------------------------------------------------------------------------
(* Actions *)

NoCall == [op |-> "none", kwargs |-> EmptyDict]

\* an oscilloscope with trigger settings t, sampling status s and register r
Scope(t, s, r) ==
    [type |-> t.type, source |-> t.source, hold_type |-> t.hold_type,
     hold_value1 |-> t.hold_value1, chSrc |-> t.chSrc, level |-> t.level,
     slope |-> t.slope, mode |-> t.mode, coupling |-> t.coupling,
     status |-> s, inr |-> r]

\* the driver objects as constructed: the class-level dict is empty
\* (triggerConfDict = {}) and the trigger channel is created with id ""
Fresh ==
    /\ triggerConfDict = EmptyDict
    /\ id = ""
    /\ pc = "idle"
    /\ call = NoCall
    /\ log = <<>>
    /\ ret = FALSE

\* the oscilloscope is stopped, with any trigger settings
Init ==
    /\ inst \in {Scope(t, "Stop", "0") : t \in TriggerStates}
    /\ Fresh

\* trigger.get_triggerConfig()
GetTriggerConfig ==
    /\ pc = "idle"
    /\ \E r \in {get_triggerConfig(triggerConfDict, inst)} :
          /\ triggerConfDict' = r.dict
          /\ log' = r.log
    /\ call' = [op |-> "get_triggerConfig", kwargs |-> EmptyDict]
    /\ pc' = "returned"
    /\ ret' = FALSE
    /\ UNCHANGED <<inst, id>>

\* trigger.set_triggerConfig(**kwargs)
SetTriggerConfig ==
    /\ pc = "idle"
    /\ \E kwargs \in Kwargs :
         \E p \in {SetPlan(triggerConfDict, id, kwargs, inst)} :
            \E j \in Outcomes(inst, p.cmds) :
               \E r \in {SetFinish(p, j)} :
                  /\ inst' = j
                  /\ triggerConfDict' = r.dict
                  /\ id' = p.id
                  /\ log' = r.log
                  /\ ret' = r.flag
                  /\ call' = [op |-> "set_triggerConfig", kwargs |-> kwargs]
    /\ pc' = "returned"

\* the caller takes the result
Return ==
    /\ pc = "returned"
    /\ pc' = "idle"
    /\ call' = NoCall
    /\ log' = <<>>
    /\ ret' = FALSE
    /\ UNCHANGED <<inst, triggerConfDict, id>>

----------------------------------------------------------------------------
(* SDS1072CML: status, internal_state, is_ready, wait and arm *)

\* v.split(" ", 1)[-1]: the text after the first space, or the whole text
\* when it holds no space
AfterFirstSpace(reply) == IF Len(reply) > 1 THEN Tail(reply) ELSE reply

\* a mutant: "Trig'd" counts as ready too
is_readyTrigd(reply) ==
    AfterFirstSpace(reply) \in {<<"Stop">>, <<"Ready">>, <<"Armed">>, <<"Trig'd">>}

\* get_process of is_ready
is_ready(reply) == AfterFirstSpace(reply) \in {<<"Stop">>, <<"Ready">>, <<"Armed">>}

\* int(time), for a time in half seconds
int(h) == h \div 2

\* "WAIT %d" % int(time)
wait(time) == <<"WAIT", ToString(int(time))>>

\* a mutant: the ARM command is written whatever the readiness
armAlways(ready) == [cmds |-> << <<"ARM">> >>, flag |-> ready]

\* arm, once is_ready is known: the commands written and the flag returned
arm(ready) ==
    IF ready THEN [cmds |-> << <<"ARM">> >>, flag |-> TRUE]
    ELSE [cmds |-> <<>>, flag |-> FALSE]

\* a mutant: the query is written and no reply is read
AskNoRead(i, q) == <<W(<<q>>)>>

\* one query: the query is written and the reply read
Ask(i, q) == <<W(<<q>>), R(Reply(i, q))>>

\* scope.is_ready
IsReady ==
    /\ pc = "idle"
    /\ log' = Ask(inst, "SAST?")
    /\ ret' = is_ready(Reply(inst, "SAST?"))
    /\ call' = [op |-> "is_ready", kwargs |-> EmptyDict]
    /\ pc' = "returned"
    /\ UNCHANGED <<inst, triggerConfDict, id>>

\* scope.status
Status ==
    /\ pc = "idle"
    /\ log' = Ask(inst, "SAST?")
    /\ ret' = FALSE
    /\ call' = [op |-> "status", kwargs |-> EmptyDict]
    /\ pc' = "returned"
    /\ UNCHANGED <<inst, triggerConfDict, id>>

\* scope.internal_state: the oscilloscope clears the register it reports
InternalState ==
    /\ pc = "idle"
    /\ log' = Ask(inst, "INR?")
    /\ inst' = [inst EXCEPT !.inr = "0"]
    /\ ret' = FALSE
    /\ call' = [op |-> "internal_state", kwargs |-> EmptyDict]
    /\ pc' = "returned"
    /\ UNCHANGED <<triggerConfDict, id>>

\* scope.wait(time)
Wait ==
    /\ pc = "idle"
    /\ \E time \in 0..MaxWait :
          /\ log' = <<W(wait(time))>>
          /\ call' = [op |-> "wait", kwargs |-> [time |-> time]]
    /\ ret' = FALSE
    /\ pc' = "returned"
    /\ UNCHANGED <<inst, triggerConfDict, id>>

\* scope.arm()
Arm ==
    /\ pc = "idle"
    /\ \E r \in {arm(is_ready(Reply(inst, "SAST?")))} :
          /\ log' = Ask(inst, "SAST?") \o [n \in 1..Len(r.cmds) |-> W(r.cmds[n])]
          /\ ret' = r.flag
          /\ inst' \in Outcomes(inst, r.cmds)
    /\ call' = [op |-> "arm", kwargs |-> EmptyDict]
    /\ pc' = "returned"
    /\ UNCHANGED <<triggerConfDict, id>>

\* the oscilloscope acquires on its own between two calls: its sampling
\* status and its register change
Acquisition ==
    /\ pc = "idle"
    /\ \E s \in Statuses, r \in InrValues :
          /\ <<s, r>> # <<inst.status, inst.inr>>
          /\ inst' = [inst EXCEPT !.status = s, !.inr = r]
    /\ UNCHANGED <<triggerConfDict, id, pc, call, log, ret>>

Next ==
    \/ GetTriggerConfig
    \/ SetTriggerConfig
    \/ Return

Spec == Init /\ [][Next]_vars

\* a stopped oscilloscope with the trigger settings it is switched on with
InitAcq ==
    /\ inst = Scope([type |-> "EDGE", source |-> "C1", hold_type |-> "OFF",
                     hold_value1 |-> "1.00NS", chSrc |-> "C1", level |-> 0,
                     slope |-> "POS", mode |-> "AUTO", coupling |-> "DC"],
                    "Stop", "0")
    /\ Fresh

NextAcq ==
    \/ IsReady
    \/ Status
    \/ InternalState
    \/ Wait
    \/ Arm
    \/ Acquisition
    \/ Return

\* the acquisition side of the driver
SpecAcq == InitAcq /\ [][NextAcq]_vars

----------------------------------------------------------------------------
(* VoltageChannel: the bytes of a reply                                    *)
(* A reply of bytes is a sequence of numbers 0..255; the byte at Python's  *)
(* offset k is element k + 1.  The numbers the oscilloscope sends are      *)
(* integer-valued in this model, and a float is decoded from its sign,     *)
(* exponent and mantissa bits.                                             *)

\* largest point count a descriptor announces
MaxPoints == 2

\* descriptorOffset = 21
descriptorOffset == 21

\* the length of a descriptor reply that holds the whole fixed layout: it
\* ends with the eight bytes unpacked at descriptorOffset + 180
FixedLayout == descriptorOffset + 180 + 8

\* struct's format "l" has no byte-order prefix, so it is the C long of the
\* build that runs the driver: 4 bytes (Windows, 32-bit builds) or 8 bytes
\* (64-bit Linux and macOS)
LongSizes == {4, 8}

RECURSIVE Pow2(_)
Pow2(n) == IF n = 0 THEN 1 ELSE 2 * Pow2(n - 1)

\* the oscilloscope's side: a 32-bit integer, a float and a double as
\* little-endian bytes
I32Bytes(n) ==
    <<n % 256, (n \div 256) % 256, (n \div 65536) % 256, (n \div 16777216) % 256>>

F32Bytes(v) ==
    CASE v = 0  -> <<0, 0, 0, 0>>
      [] v = 1  -> <<0, 0, 128, 63>>
      [] v = 2  -> <<0, 0, 0, 64>>
      [] v = 3  -> <<0, 0, 64, 64>>
      [] v = -1 -> <<0, 0, 128, 191>>

F64Bytes(v) ==
    CASE v = 0  -> <<0, 0, 0, 0, 0, 0, 0, 0>>
      [] v = 1  -> <<0, 0, 0, 0, 0, 0, 240, 63>>
      [] v = 2  -> <<0, 0, 0, 0, 0, 0, 0, 64>>
      [] v = 3  -> <<0, 0, 0, 0, 0, 0, 8, 64>>
      [] v = -1 -> <<0, 0, 0, 0, 0, 0, 240, 191>>

\* the descriptor reply of an oscilloscope i, cut to i.descLen bytes: the
\* header, then the descriptor block with its fields at their offsets; the
\* field behind the point count is the block's next 32-bit integer
DescriptorReply(i) ==
    [k \in 1..i.descLen |->
        LET o == k - 1 - descriptorOffset
        IN CASE o \in 60..63   -> I32Bytes(i.numDataPoints)[o - 59]
             [] o \in 64..67   -> I32Bytes(i.nextField)[o - 63]
             [] o \in 156..159 -> F32Bytes(i.verticalGain)[o - 155]
             [] o \in 160..163 -> F32Bytes(i.verticalOffset)[o - 159]
             [] o \in 176..179 -> F32Bytes(i.horizInterval)[o - 175]
             [] o \in 180..187 -> F64Bytes(i.horizOffset)[o - 179]
             [] OTHER          -> 0]

\* the waveform reply: a header of i.header bytes, then one byte per code
WaveformReply(i) ==
    [k \in 1..(i.header + Len(i.codes)) |->
        IF k <= i.header THEN 0 ELSE i.codes[k - i.header] % 256]

\* struct.unpack_from(fmt, buffer, offset) needs size bytes from offset on
\* and raises struct.error otherwise
fits(size, buffer, offset) == Len(buffer) - offset >= size

\* the size bytes unpack_from reads
bytes_from(size, buffer, offset) == SubSeq(buffer, offset + 1, offset + size)

\* four little-endian bytes as a signed 32-bit integer
Signed32(b) ==
    (IF b[4] >= 128 THEN b[4] - 256 ELSE b[4]) * 16777216
    + b[3] * 65536 + b[2] * 256 + b[1]

\* format "l" on the 4 or 8 bytes of a native long, low byte first.  The
\* number is kept as two signed 32-bit words: it is hi * 2^32 plus lo taken
\* modulo 2^32, and hi is the sign extension of lo when it fits 32 bits
unpack_l(b) ==
    IF Len(b) = 4
    THEN [hi |-> IF b[4] >= 128 THEN -1 ELSE 0, lo |-> Signed32(b)]
    ELSE [hi |-> Signed32(SubSeq(b, 5, 8)), lo |-> Signed32(SubSeq(b, 1, 4))]

\* format "f": sign, 8 exponent bits and 23 mantissa bits; the value
\* (2^23 + mantissa) * 2^(exponent - 150) of an integer-valued float
unpack_f(b) ==
    LET e == (b[4] % 128) * 2 + b[3] \div 128
        m == (b[3] % 128) * 65536 + b[2] * 256 + b[1]
        a == IF e = 0 THEN 0 ELSE (8388608 + m) \div Pow2(150 - e)
    IN IF b[4] >= 128 THEN 0 - a ELSE a

\* format "d": sign, 11 exponent bits and 52 mantissa bits, of which an
\* integer below 2^20 uses the upper 20; (2^20 + upper) * 2^(exponent - 1043)
unpack_d(b) ==
    LET e == (b[8] % 128) * 16 + b[7] \div 16
        m == (b[7] % 16) * 65536 + b[6] * 256 + b[5]
        a == IF e = 0 THEN 0 ELSE (1048576 + m) \div Pow2(1043 - e)
    IN IF b[8] >= 128 THEN 0 - a ELSE a

\* a mutant: format "B", the byte as it is
unpack_bUnsigned(byte) == byte

\* format "b": a signed byte
unpack_b(byte) == IF byte >= 128 THEN byte - 256 ELSE byte

----------------------------------------------------------------------------
(* VoltageChannel.get_desc and VoltageChannel.get_waveform *)

\* what a call that raised hands to its caller
None == "None"

\* "C{ch}:WF? DESC" and "C{ch}:WF? DAT2" for the channel id ch
WFCommand(ch, what) == <<"C" \o ch, "WF?", what>>

\* get_desc on a channel ch whose query is answered by the bytes descriptor,
\* on a build whose native long has long bytes: the query is written, the
\* reply read and the five fields unpacked, the first failing unpack_from
\* raising struct.error
get_desc(ch, descriptor, long) ==
    LET events == <<W(WFCommand(ch, "DESC")), R(descriptor)>>
        field(size, offset) == bytes_from(size, descriptor, descriptorOffset + offset)
    IN IF /\ fits(long, descriptor, descriptorOffset + 60)
          /\ fits(4, descriptor, descriptorOffset + 156)
          /\ fits(4, descriptor, descriptorOffset + 160)
          /\ fits(4, descriptor, descriptorOffset + 176)
          /\ fits(8, descriptor, descriptorOffset + 180)
       THEN [raised |-> FALSE, log |-> events,
             value |-> [numDataPoints    |-> unpack_l(field(long, 60)),
                        verticalGain     |-> unpack_f(field(4, 156)),
                        verticalOffset   |-> unpack_f(field(4, 160)),
                        horizInterval    |-> unpack_f(field(4, 176)),
                        horizOffset      |-> unpack_d(field(8, 180)),
                        descriptorOffset |-> descriptorOffset]]
       ELSE [raised |-> TRUE, log |-> events, value |-> None]

\* "%db" % n is a format struct accepts when n is not negative, and a count
\* that does not fit 32 bits asks for more bytes than any reply holds
CountFormat(n) == n.hi = 0 /\ n.lo >= 0

\* the rest of get_waveform once the descriptor d is decoded: the waveform
\* is requested, the reply read, the codes unpacked and scaled
Waveform(ch, d, response) ==
    LET events == <<W(WFCommand(ch, "DAT2")), R(response)>>
        n      == d.numDataPoints
    IN IF CountFormat(n) /\ fits(n.lo, response, d.descriptorOffset)
       THEN LET rawWaveform ==
                    [k \in 1..n.lo |-> unpack_b(response[d.descriptorOffset + k])]
                waveform ==
                    [k \in 1..Len(rawWaveform) |->
                        rawWaveform[k] * d.verticalGain - d.verticalOffset]
                timetags ==
                    [k \in 1..Len(rawWaveform) |->
                        (k - 1) * d.horizInterval + d.horizOffset]
            IN [raised |-> FALSE, log |-> events, value |-> <<timetags, waveform>>]
       ELSE [raised |-> TRUE, log |-> events, value |-> None]

\* a mutant: the waveform is requested before the descriptor
get_waveformDat2First(ch, descriptor, response, long) ==
    LET desc == get_desc(ch, descriptor, long)
        wave == IF desc.raised THEN [raised |-> TRUE, log |-> <<>>, value |-> None]
                ELSE Waveform(ch, desc.value, response)
    IN [raised |-> wave.raised, value |-> wave.value,
        log |-> <<W(WFCommand(ch, "DAT2")), R(response)>> \o desc.log]

\* a mutant: a reply that is too short yields the points it holds
get_waveformPartial(ch, descriptor, response, long) ==
    LET desc == get_desc(ch, descriptor, long)
    IN IF desc.raised THEN desc
       ELSE LET n    == desc.value.numDataPoints
                held == IF Len(response) > descriptorOffset
                        THEN Len(response) - descriptorOffset ELSE 0
                some == IF CountFormat(n) /\ n.lo <= held THEN n
                        ELSE [hi |-> 0, lo |-> held]
                wave == Waveform(ch, [desc.value EXCEPT !.numDataPoints = some],
                                 response)
            IN [raised |-> wave.raised, value |-> wave.value,
                log |-> desc.log \o wave.log]

\* get_waveform: get_desc first; an exception it raises ends the call
get_waveform(ch, descriptor, response, long) ==
    LET desc == get_desc(ch, descriptor, long)
    IN IF desc.raised THEN desc
       ELSE LET wave == Waveform(ch, desc.value, response)
            IN [raised |-> wave.raised, value |-> wave.value,
                log |-> desc.log \o wave.log]

\* the oscilloscopes of the waveform side: what the descriptor announces,
\* the codes of the waveform reply and the lengths of both replies, and the
\* size of the native long of the build the driver runs on
Codes == {-128, 127}

CodeSeqs == UNION {[1..n -> Codes] : n \in 0..MaxPoints}

WaveScopes ==
    [numDataPoints : (0..MaxPoints) \cup {-1}, nextField : {0, 1},
     verticalGain : {1, 2}, verticalOffset : {0, 1},
     horizInterval : {2}, horizOffset : {0, 3},
     codes : CodeSeqs, header : {descriptorOffset, descriptorOffset - 1},
     descLen : {FixedLayout - 1, FixedLayout}, long : LongSizes]

InitWave ==
    /\ inst \in WaveScopes
    /\ id \in {"1", "2"}
    /\ triggerConfDict = EmptyDict
    /\ pc = "idle"
    /\ call = NoCall
    /\ log = <<>>
    /\ ret = FALSE

\* channel.get_desc()
GetDesc ==
    /\ pc = "idle"
    /\ \E r \in {get_desc(id, DescriptorReply(inst), inst.long)} :
          /\ log' = r.log
          /\ ret' = [raised |-> r.raised, value |-> r.value]
    /\ call' = [op |-> "get_desc", kwargs |-> EmptyDict]
    /\ pc' = "returned"
    /\ UNCHANGED <<inst, triggerConfDict, id>>

\* get_waveform() of the voltage channel with id ch
GetWaveformOn(ch) ==
    /\ pc = "idle"
    /\ \E r \in {get_waveform(ch, DescriptorReply(inst), WaveformReply(inst), inst.long)} :
          /\ log' = r.log
          /\ ret' = [raised |-> r.raised, value |-> r.value]
    /\ call' = [op |-> "get_waveform", kwargs |-> EmptyDict]
    /\ pc' = "returned"
    /\ UNCHANGED <<inst, triggerConfDict, id>>

\* channel.get_waveform()
GetWaveform == GetWaveformOn(id)

\* the oscilloscope captures again between two calls: its descriptor
\* announces another point count
Capture ==
    /\ pc = "idle"
    /\ \E n \in ((0..MaxPoints) \cup {-1}) \ {inst.numDataPoints} :
          inst' = [inst EXCEPT !.numDataPoints = n]
    /\ UNCHANGED <<triggerConfDict, id, pc, call, log, ret>>

NextWave ==
    \/ GetDesc
    \/ GetWaveform
    \/ Capture
    \/ Return

\* the waveform side of the driver
SpecWave == InitWave /\ [][NextWave]_vars

----------------------------------------------------------------------------
(* The controls vertical_division, coupling and timeDiv                    *)
(* A positive number is kept as its three significant digits m             *)
(* (100..999) and its decimal exponent e: it is m / 100 * 10^e, the        *)
(* number "%.2e" prints.                                                   *)

Num(m, e) == [m |-> m, e |-> e]

\* a <= b for two such numbers
Leq(a, b) == a.e < b.e \/ (a.e = b.e /\ a.m <= b.m)

\* values=[2e-3, 10] of vertical_division and values=[5e-9, 50] of timeDiv
vertical_division_values == <<Num(200, -3), Num(100, 1)>>
timeDiv_values == <<Num(500, -9), Num(500, 1)>>

\* values={"DC": "D", "AC": "A"} of coupling
coupling_values == [DC |-> "D", AC |-> "A"]

\* a mutant: a number out of the range is replaced by the nearest bound
truncated_rangeClamp(value, values) ==
    [raised |-> FALSE,
     value  |-> IF ~Leq(values[1], value) THEN values[1]
                ELSE IF ~Leq(value, values[2]) THEN values[2] ELSE value]

\* the validator of the two numeric controls: a number within the range is
\* passed on, any other raises
truncated_range(value, values) ==
    IF Leq(values[1], value) /\ Leq(value, values[2])
    THEN [raised |-> FALSE, value |-> value]
    ELSE [raised |-> TRUE, value |-> None]

\* the validator of coupling: a key of values is passed on, any other raises
truncated_discrete_set(value, values) ==
    IF value \in DOMAIN values
    THEN [raised |-> FALSE, value |-> value]
    ELSE [raised |-> TRUE, value |-> None]

\* set_process of the numeric controls: "%.2eV" % v, "%.2eS" % v
SetProcess(v, unit) == <<ToString(v.m), "e", ToString(v.e), unit>>

\* the setter of a control: the value is validated, processed and written
\* with the set command; a validator that raises ends the call
Setter(validated, command) ==
    IF validated.raised THEN [raised |-> TRUE, log |-> <<>>]
    ELSE [raised |-> FALSE, log |-> <<W(command)>>]

\* the values a caller assigns
VerticalTried == {Num(199, -3), Num(200, -3), Num(500, 0), Num(100, 1), Num(101, 1)}
TimeTried == {Num(499, -9), Num(500, -9), Num(100, -3), Num(500, 1), Num(100, 2)}
CouplingTried == {"DC", "AC", "GND", "D"}

\* an oscilloscope as switched on, and one of its two channel objects
InitCtl ==
    /\ inst = [vdiv |-> [c \in {"1", "2"} |-> Num(100, 0)],
               cpl  |-> [c \in {"1", "2"} |-> "D1M"],
               tdiv |-> Num(100, -3)]
    /\ id \in {"1", "2"}
    /\ triggerConfDict = EmptyDict
    /\ pc = "idle"
    /\ call = NoCall
    /\ log = <<>>
    /\ ret = FALSE

\* channel.vertical_division = value
SetVerticalDivision ==
    /\ pc = "idle"
    /\ \E value \in VerticalTried :
         \E v \in {truncated_range(value, vertical_division_values)} :
           \E r \in {Setter(v, <<"C" \o id, "VDIV">> \o
                                (IF v.raised THEN <<>> ELSE SetProcess(v.value, "V")))} :
              /\ log' = r.log
              /\ ret' = [raised |-> r.raised, value |-> None]
              /\ inst' = IF r.raised THEN inst ELSE [inst EXCEPT !.vdiv[id] = v.value]
              /\ call' = [op |-> "vertical_division", kwargs |-> [value |-> value]]
    /\ pc' = "returned"
    /\ UNCHANGED <<triggerConfDict, id>>

\* channel.coupling = value
SetCoupling ==
    /\ pc = "idle"
    /\ \E value \in CouplingTried :
         \E v \in {truncated_discrete_set(value, coupling_values)} :
           \E r \in {Setter(v, <<"C" \o id, "CPL">> \o
                                (IF v.raised THEN <<>>
                                 ELSE <<coupling_values[v.value] \o "1M">>))} :
              /\ log' = r.log
              /\ ret' = [raised |-> r.raised, value |-> None]
              /\ inst' = IF r.raised THEN inst
                         ELSE [inst EXCEPT !.cpl[id] = coupling_values[v.value] \o "1M"]
              /\ call' = [op |-> "coupling", kwargs |-> [value |-> value]]
    /\ pc' = "returned"
    /\ UNCHANGED <<triggerConfDict, id>>

\* scope.timeDiv = value
SetTimeDiv ==
    /\ pc = "idle"
    /\ \E value \in TimeTried :
         \E v \in {truncated_range(value, timeDiv_values)} :
           \E r \in {Setter(v, <<"", "TDIV">> \o
                                (IF v.raised THEN <<>> ELSE SetProcess(v.value, "S")))} :
              /\ log' = r.log
              /\ ret' = [raised |-> r.raised, value |-> None]
              /\ inst' = IF r.raised THEN inst ELSE [inst EXCEPT !.tdiv = v.value]
              /\ call' = [op |-> "timeDiv", kwargs |-> [value |-> value]]
    /\ pc' = "returned"
    /\ UNCHANGED <<triggerConfDict, id>>

NextCtl ==
    \/ SetVerticalDivision
    \/ SetCoupling
    \/ SetTimeDiv
    \/ Return

\* the controls of the driver
SpecCtl == InitCtl /\ [][NextCtl]_vars

----------------------------------------------------------------------------
(* The operations that use the transport, on one oscilloscope *)

\* a stopped oscilloscope as switched on, with a captured waveform
InitAll ==
    /\ inst = Scope([type |-> "EDGE", source |-> "C1", hold_type |-> "OFF",
                     hold_value1 |-> "1.00NS", chSrc |-> "C1", level |-> 0,
                     slope |-> "POS", mode |-> "AUTO", coupling |-> "DC"],
                    "Stop", "0")
               @@ [numDataPoints |-> MaxPoints, nextField |-> 0,
                   verticalGain |-> 1, verticalOffset |-> 0,
                   horizInterval |-> 2, horizOffset |-> 0,
                   codes |-> [k \in 1..MaxPoints |-> 127],
                   header |-> descriptorOffset, descLen |-> FixedLayout,
                   long |-> 4]
    /\ Fresh

\* the trigger channel, channel 1 and the oscilloscope object are used in
\* any order, one call at a time
NextAll ==
    \/ GetTriggerConfig
    \/ SetTriggerConfig
    \/ GetWaveformOn("1")
    \/ Arm
    \/ Wait
    \/ Return

SpecAll == InitAll /\ [][NextAll]_vars

----------------------------------------------------------------------------
(* set_triggerConfig, with the keyword arguments in the caller's order *)

Range(s) == {s[n] : n \in DOMAIN s}

\* the orders in which a caller can write the keys of kwargs
Orders(kwargs) ==
    {o \in [1..Cardinality(DOMAIN kwargs) -> DOMAIN kwargs] : Range(o) = DOMAIN kwargs}

\* changedValues as the list the code builds: the keys that differ from the
\* dict, in the order of kwargs
changedList(d, kwargs, order) == SelectSeq(order, LAMBDA key : d[key] # kwargs[key])

\* a mutant: the groups in the order in which their keys were supplied
processInKeyOrder(changed) ==
    LET gs       == {g \in Range(GroupOrder) :
                        \E n \in DOMAIN changed : changed[n] \in setValues[g]}
        first(g) == CHOOSE n \in DOMAIN changed :
                        /\ changed[n] \in setValues[g]
                        /\ \A m \in 1..(n - 1) : changed[m] \notin setValues[g]
    IN CHOOSE s \in [1..Cardinality(gs) -> gs] :
           \A a, b \in DOMAIN s : a < b => first(s[a]) < first(s[b])

\* processToChange from that list: the groups of setValues, in the order of
\* setValues, that have a member in the list
processOfList(changed) ==
    SelectSeq(GroupOrder, LAMBDA g : \E n \in DOMAIN changed : changed[n] \in setValues[g])

\* the call after its first read, for kwargs written in the given order
PlanOrdered(first, ch, kwargs, order) ==
    LET newid   == NewId(ch, kwargs)
        changed == changedList(first.dict, kwargs, order)
        procs   == processOfList(changed)
        written == ApplyChanges(first.dict, kwargs, Range(changed))
    IN [dict |-> written,
        id   |-> newid,
        cmds |-> [n \in 1..Len(procs) |-> setCommand(procs[n], written, newid)],
        log  |-> first.log]

\* trigger.set_triggerConfig(**kwargs), the keys written in the order order
SetTriggerConfigOrdered ==
    /\ pc = "idle"
    /\ \E kwargs \in Kwargs :
         \E order \in Orders(kwargs) :
           \E p \in {PlanOrdered(get_triggerConfig(triggerConfDict, inst), id, kwargs, order)} :
             \E j \in Outcomes(inst, p.cmds) :
               \E r \in {SetFinish(p, j)} :
                  /\ inst' = j
                  /\ triggerConfDict' = r.dict
                  /\ id' = p.id
                  /\ log' = r.log
                  /\ ret' = r.flag
                  /\ call' = [op |-> "set_triggerConfig", kwargs |-> kwargs,
                              order |-> order]
    /\ pc' = "returned"

\* stopped oscilloscopes with an edge trigger without holdoff whose settings
\* are those of the trigger source
EdgeScopes ==
    {Scope(t, "Stop", "0") :
        t \in {u \in TriggerStates :
                 u.type = "EDGE" /\ u.hold_type = "OFF" /\ u.chSrc = u.source}}

InitOrder ==
    /\ inst \in EdgeScopes
    /\ Fresh

NextOrder == SetTriggerConfigOrdered

\* one set_triggerConfig call on a fresh trigger channel
SpecOrder == InitOrder /\ [][NextOrder]_vars

----------------------------------------------------------------------------
(* Three callers and one trigger cache                                     *)
(* Caller A runs set_triggerConfig on the trigger channel; the steps of    *)
(* A between which other callers can run are the baseline read with the    *)
(* changed keys stored (lines 257-291), each write of the loop (lines      *)
(* 292-295) and the final read and comparison (lines 296-298).  Callers B  *)
(* and C run get_triggerConfig on trigger channels of their own and B      *)
(* later reads the configuration it was returned.  pc, call and ret hold   *)
(* one entry per caller and every transport event names its caller.       *)

Tag(by, evs) ==
    [n \in DOMAIN evs |-> [dir |-> evs[n].dir, msg |-> evs[n].msg, by |-> by]]

\* one oscilloscope as switched on, nobody has called yet
InitConc ==
    /\ inst = Scope([type |-> "EDGE", source |-> "C1", hold_type |-> "OFF",
                     hold_value1 |-> "1.00NS", chSrc |-> "C1", level |-> 0,
                     slope |-> "POS", mode |-> "AUTO", coupling |-> "DC"],
                    "Stop", "0")
    /\ triggerConfDict = EmptyDict
    /\ id = ""
    /\ pc = [A |-> "idle", B |-> "idle", C |-> "idle"]
    /\ call = [A |-> NoCall, B |-> NoCall, C |-> NoCall]
    /\ log = <<>>
    /\ ret = [A |-> FALSE, B |-> FALSE, C |-> FALSE]

\* A: the baseline is read, self.id set and the changed keys stored in the
\* dict; the local names triggerConfDict and processToChange are kept
SetBegin ==
    /\ pc.A = "idle"
    /\ \E kwargs \in Kwargs :
         \E first \in {get_triggerConfig(triggerConfDict, inst)} :
           \E p \in {PlanFrom(first, id, kwargs)} :
              /\ triggerConfDict' = p.dict
              /\ id' = p.id
              /\ log' = log \o Tag("A", first.log)
              /\ call' = [call EXCEPT !.A =
                            [op |-> "set_triggerConfig", kwargs |-> kwargs,
                             triggerConfDict |-> p.dict,
                             processToChange |->
                                processToChange(changedValues(first.dict, kwargs))]]
    /\ pc' = [pc EXCEPT !.A = "writing"]
    /\ UNCHANGED <<inst, ret>>

\* A: one turn of the write loop; the command is formatted from what the
\* local name triggerConfDict denotes now
SetWrite ==
    /\ pc.A = "writing"
    /\ call.A.processToChange # <<>>
    /\ \E m \in {setCommand(Head(call.A.processToChange),
                            LocalDict(call.A.triggerConfDict, triggerConfDict), id)} :
          /\ inst' \in React(inst, m)
          /\ log' = log \o Tag("A", <<W(m)>>)
    /\ call' = [call EXCEPT !.A.processToChange = Tail(@)]
    /\ UNCHANGED <<triggerConfDict, id, pc, ret>>

\* A: the dict is read again and compared with the local name
SetEnd ==
    /\ pc.A = "writing"
    /\ call.A.processToChange = <<>>
    /\ \E second \in {get_triggerConfig(triggerConfDict, inst)} :
          /\ triggerConfDict' = second.dict
          /\ log' = log \o Tag("A", second.log)
          /\ ret' = [ret EXCEPT !.A =
                       second.dict = LocalDict(call.A.triggerConfDict, second.dict)]
    /\ pc' = [pc EXCEPT !.A = "returned"]
    /\ UNCHANGED <<inst, id, call>>

\* B or C: get_triggerConfig() on another trigger channel object, whose
\* triggerConfDict is the class attribute, the same dict; the caller keeps
\* what it was returned
GetBy(c) ==
    /\ pc[c] = "idle"
    /\ \E r \in {get_triggerConfig(triggerConfDict, inst)} :
          /\ triggerConfDict' = r.dict
          /\ log' = log \o Tag(c, r.log)
          /\ ret' = [ret EXCEPT ![c] = [held |-> r.dict, seen |-> r.dict]]
    /\ pc' = [pc EXCEPT ![c] = "returned"]
    /\ call' = [call EXCEPT ![c] = [op |-> "get_triggerConfig", kwargs |-> EmptyDict]]
    /\ UNCHANGED <<inst, id>>

\* B reads the configuration it was returned
Look ==
    /\ pc.B = "returned"
    /\ ret' = [ret EXCEPT !.B.seen = LocalDict(ret.B.held, triggerConfDict)]
    /\ pc' = [pc EXCEPT !.B = "looked"]
    /\ UNCHANGED <<inst, triggerConfDict, id, call, log>>

NextConc ==
    \/ SetBegin
    \/ SetWrite
    \/ SetEnd
    \/ GetBy("B")
    \/ GetBy("C")
    \/ Look

\* callers that share the trigger cache without serializing their calls
SpecConc == InitConc /\ [][NextConc]_vars

----------------------------------------------------------------------------
(* What a finished call shows: the properties below read the call, its     *)
(* transport log and its result, not the operators of the model.           *)

Returned(op) == pc = "returned" /\ call.op = op

TheQueries == <<"TRSE?", "TRLV?", "TRSL?", "TRMD?", "TRCP?">>

IsQuery(m) == Len(m) = 1 /\ m[1] \in {"TRSE?", "TRLV?", "TRSL?", "TRMD?", "TRCP?"}

\* the events are one full read: the five queries in order, each followed
\* by the read of its reply
FullRead(evs) ==
    /\ Len(evs) = 10
    /\ \A k \in 1..5 : evs[2 * k - 1] = W(<<TheQueries[k]>>) /\ evs[2 * k].dir = "r"

LevelOf(s) == CHOOSE n \in InstLevels \cup DesiredValues.level : ToString(n) = s

\* the configuration the replies of a full read report, the source being
\* the one of the TRCP? reply
ConfigRead(evs) ==
    [type |-> evs[2].msg[2], source |-> evs[10].msg[1], hold_type |-> evs[2].msg[6],
     hold_value1 |-> evs[2].msg[8], level |-> LevelOf(evs[4].msg[3]),
     slope |-> evs[6].msg[3], mode |-> evs[8].msg[2], coupling |-> evs[10].msg[3]]

\* the trigger state of the oscilloscope, as its replies report it
InstConfig ==
    [type |-> inst.type, source |-> inst.chSrc, hold_type |-> inst.hold_type,
     hold_value1 |-> inst.hold_value1, level |-> inst.level, slope |-> inst.slope,
     mode |-> inst.mode, coupling |-> inst.coupling]

\* of a set_triggerConfig call: the baseline read, the read after the
\* writes, the predicted configuration and the set commands written
Baseline  == ConfigRead(SubSeq(log, 1, 10))
PostRead  == ConfigRead(SubSeq(log, Len(log) - 9, Len(log)))
Predicted ==
    [k \in Keys |-> IF k \in DOMAIN call.kwargs THEN call.kwargs[k] ELSE Baseline[k]]
SetWrites ==
    LET ws == SelectSeq(log, LAMBDA e : e.dir = "w" /\ ~IsQuery(e.msg))
    IN [n \in 1..Len(ws) |-> ws[n].msg]

\* the keys of each command group, and the group of a set command
GroupKeys ==
    [setup |-> {"source", "type", "hold_type", "hold_value1"}, level |-> {"level"},
     coupling |-> {"coupling"}, slope |-> {"slope"}, mode |-> {"mode"}]
Groups == {"setup", "level", "coupling", "slope", "mode"}
GroupOf(m) ==
    CASE m[1] = "TRSE" -> "setup"
      [] m[1] = "TRMD" -> "mode"
      [] m[2] = "TRLV" -> "level"
      [] m[2] = "TRCP" -> "coupling"
      [] m[2] = "TRSL" -> "slope"
      [] OTHER -> "none"
Dirty(g) == \E k \in GroupKeys[g] \cap DOMAIN call.kwargs : call.kwargs[k] # Baseline[k]
Written(g) == {n \in 1..Len(SetWrites) : GroupOf(SetWrites[n]) = g}

\* C1: set_triggerConfig returns true exactly when the configuration read
\* after the writes equals the predicted configuration (the baseline with
\* the desired values), so it returns false when the oscilloscope ignores a
\* changed field.
C1_FlagIffReadEqualsPredicted ==
    Returned("set_triggerConfig") => (ret <=> PostRead = Predicted)

\* C2: with only type changed and no source supplied, the one set command
\* written is the setup command with source, hold_type and hold_value1 of
\* the baseline; its source field is never blank.
C2_SetupCarriesBaselineSource ==
    (/\ Returned("set_triggerConfig")
     /\ DOMAIN call.kwargs = {"type"}
     /\ call.kwargs.type # Baseline.type)
    => SetWrites = << <<"TRSE", call.kwargs.type, "SR", Baseline.source,
                       "HT", Baseline.hold_type, "HV", Baseline.hold_value1>> >>

\* C3: a command group gets exactly one set command when one of its keys is
\* supplied with a value that differs from the baseline, and none otherwise;
\* no other set command is written.
C3_OneCommandPerDirtyGroup ==
    Returned("set_triggerConfig") =>
        /\ \A g \in Groups : Cardinality(Written(g)) = IF Dirty(g) THEN 1 ELSE 0
        /\ \A n \in 1..Len(SetWrites) : GroupOf(SetWrites[n]) \in Groups

\* a call that supplies a key with its baseline value and changes the mode
\* only: the one command written is TRMD
C3_Witness ==
    /\ Returned("set_triggerConfig")
    /\ \E k \in DOMAIN call.kwargs : call.kwargs[k] = Baseline[k]
    /\ "mode" \in DOMAIN call.kwargs
    /\ SetWrites = << <<"TRMD", call.kwargs.mode>> >>

\* C4: set_triggerConfig without keyword arguments writes no set command,
\* only the queries of its two reads, and returns true.
C4_EmptyWritesNothing ==
    (Returned("set_triggerConfig") /\ DOMAIN call.kwargs = {}) =>
        /\ SetWrites = <<>>
        /\ \A n \in 1..Len(log) : log[n].dir = "w" => IsQuery(log[n].msg)
        /\ ret = TRUE

C4_Witness ==
    /\ Returned("set_triggerConfig")
    /\ DOMAIN call.kwargs = {}
    /\ Baseline.mode = "NORM"

\* C5: after a set_triggerConfig call that returned true the cached
\* configuration equals the trigger state of the oscilloscope in all eight
\* keys, whatever the oscilloscope did with the commands.
C5_CacheEqualsInstrument ==
    (Returned("set_triggerConfig") /\ ret) => triggerConfDict = InstConfig

\* a call whose commands the oscilloscope did not follow
C5_Witness ==
    /\ Returned("set_triggerConfig")
    /\ ret
    /\ SetWrites # <<>>
    /\ PostRead # Predicted

\* C6: get_triggerConfig issues the five queries TRSE?, TRLV?, TRSL?, TRMD?,
\* TRCP? in that order, reading each reply before the next query; the merged
\* source is the one of the TRCP? reply and every other key is the one of
\* its query.
C6_FiveQueriesLastSourceWins ==
    Returned("get_triggerConfig") =>
        /\ FullRead(log)
        /\ triggerConfDict = ConfigRead(log)

\* a read where the TRCP? reply names another source than the TRSE? reply
C6_Witness ==
    /\ Returned("get_triggerConfig")
    /\ log[10].msg[1] # log[2].msg[4]
    /\ triggerConfDict.source = log[10].msg[1]

\* the log of a set_triggerConfig call: a full read, set commands only, a
\* full read
ReadWriteRead(evs) ==
    /\ Len(evs) >= 20
    /\ FullRead(SubSeq(evs, 1, 10))
    /\ \A n \in 11..(Len(evs) - 10) : evs[n].dir = "w" /\ ~IsQuery(evs[n].msg)
    /\ FullRead(SubSeq(evs, Len(evs) - 9, Len(evs)))

\* C7: every set_triggerConfig call is a full read, then the set commands,
\* then a second full read; the baseline is what the oscilloscope reports
\* when the call starts, not what an earlier call left in the cache.
C7_ReadWriteRead ==
    [][(pc = "idle" /\ pc' = "returned" /\ call'.op = "set_triggerConfig") =>
           /\ ReadWriteRead(log')
           /\ ConfigRead(SubSeq(log', 1, 10)) = InstConfig]_vars

\* a second call of the driver that writes two set commands
C7_Witness ==
    /\ Returned("set_triggerConfig")
    /\ id = "C2"
    /\ "source" \notin DOMAIN call.kwargs
    /\ Len(log) = 22

\* C8: when source = s is supplied, every per-channel command of that call
\* carries s: the SR field of the setup command and the prefix of the level,
\* slope and coupling commands.
C8_SuppliedSourceInCommands ==
    (Returned("set_triggerConfig") /\ "source" \in DOMAIN call.kwargs) =>
        \A n \in 1..Len(SetWrites) :
            LET m == SetWrites[n]
            IN /\ GroupOf(m) = "setup" => m[4] = call.kwargs.source
               /\ GroupOf(m) \in {"level", "slope", "coupling"} => m[1] = call.kwargs.source

\* the supplied source equals the source of the baseline, so that no setup
\* command is written, and a level command is written for that source
C8_Witness ==
    /\ Returned("set_triggerConfig")
    /\ "source" \in DOMAIN call.kwargs
    /\ call.kwargs.source = Baseline.source
    /\ log[2].msg[4] # call.kwargs.source
    /\ \E n \in 1..Len(SetWrites) :
           GroupOf(SetWrites[n]) = "level" /\ SetWrites[n][1] = call.kwargs.source

\* C9: arm queries the readiness first; when the oscilloscope is not ready it
\* writes nothing more and returns false, when it is ready it writes ARM
\* once, reads nothing after it and returns true.
C9_ArmGuard ==
    Returned("arm") =>
        /\ Len(log) >= 2
        /\ log[1] = W(<<"SAST?">>)
        /\ log[2].dir = "r"
        /\ IF log[2].msg[2] \in {"Stop", "Ready", "Armed"}
           THEN log = <<log[1], log[2], W(<<"ARM">>)>> /\ ret = TRUE
           ELSE Len(log) = 2 /\ ret = FALSE

\* arm returned true and the oscilloscope did not arm
C9_Witness ==
    /\ Returned("arm")
    /\ ret
    /\ inst.status # "Armed"

\* C10: is_ready is true exactly when the text after the first space of the
\* SAST? reply is Stop, Ready or Armed.
C10_ReadyIffStopReadyArmed ==
    Returned("is_ready") =>
        /\ log[1] = W(<<"SAST?">>)
        /\ ret <=> (Tail(log[2].msg) \in {<<"Stop">>, <<"Ready">>, <<"Armed">>})

C10_Witness ==
    /\ Returned("is_ready")
    /\ log[2].msg = <<"SAST", "Trig'd">>
    /\ ret = FALSE

----------------------------------------------------------------------------
(* The waveform side *)

\* the four transport events of a whole get_waveform call
WaveformEvents ==
    <<W(<<"C" \o id, "WF?", "DESC">>), R(DescriptorReply(inst)),
      W(<<"C" \o id, "WF?", "DAT2">>), R(WaveformReply(inst))>>

\* C11, as the specification states it: every get_waveform call writes the
\* descriptor request, reads one reply, writes the waveform request and
\* reads one reply, in this order.
C11_AlwaysFourEvents == Returned("get_waveform") => log = WaveformEvents

\* C11, amended: a get_waveform call whose descriptor reply holds the whole
\* fixed layout writes the descriptor request, reads one reply, writes the
\* waveform request and reads one reply, in this order and on every call;
\* a call whose descriptor reply is shorter ends after the descriptor round
\* trip and never writes the waveform request.
C11_DescriptorThenWaveform ==
    Returned("get_waveform") =>
        IF Len(DescriptorReply(inst)) >= FixedLayout
        THEN log = WaveformEvents
        ELSE log = SubSeq(WaveformEvents, 1, 2)

C11_Witness ==
    /\ Returned("get_waveform")
    /\ ~ret.raised
    /\ Len(log) = 4
    /\ inst.numDataPoints = MaxPoints

\* the descriptor a get_desc call returns in the current state
TheDescriptor == get_desc(id, DescriptorReply(inst), inst.long)

\* the code the waveform reply holds at Python's offset k
CodeAt(k) == inst.codes[k - inst.header + 1]

C13_CountFromFourBytes ==
    (Returned("get_desc") /\ Len(DescriptorReply(inst)) >= FixedLayout)
    => /\ ~ret.raised
       /\ ret.value.numDataPoints =
              [hi |-> IF inst.numDataPoints < 0 THEN -1 ELSE 0,
               lo |-> inst.numDataPoints]

\* C15: when the descriptor reply is shorter than the fixed layout or the
\* waveform reply is shorter than descriptorOffset + numDataPoints bytes,
\* get_waveform raises and hands no sequence to its caller.
C15_ShortReplyRaises ==
    (/\ Returned("get_waveform")
     /\ \/ Len(DescriptorReply(inst)) < FixedLayout
        \/ Len(WaveformReply(inst)) < descriptorOffset + inst.numDataPoints)
    => ret.raised /\ ret.value = None

C15_Witness ==
    /\ Returned("get_waveform")
    /\ Len(DescriptorReply(inst)) >= FixedLayout
    /\ inst.numDataPoints = MaxPoints
    /\ Len(WaveformReply(inst)) = descriptorOffset + MaxPoints - 1
    /\ inst.nextField = 0
    /\ ret.raised

----------------------------------------------------------------------------
(* The controls *)

\* the value assigned by the returned call is outside what the control
\* declares
OutOfRange ==
    \/ /\ call.op = "vertical_division"
       /\ \/ ~Leq(Num(200, -3), call.kwargs.value)
          \/ ~Leq(call.kwargs.value, Num(100, 1))
    \/ /\ call.op = "timeDiv"
       /\ \/ ~Leq(Num(500, -9), call.kwargs.value)
          \/ ~Leq(call.kwargs.value, Num(500, 1))
    \/ /\ call.op = "coupling"
       /\ call.kwargs.value \notin {"DC", "AC"}

----------------------------------------------------------------------------
(* Writes and reads of the transport *)

\* the message holds a query, a command word that ends with "?"
Asks(m) ==
    \E k \in 1..Len(m) :
        m[k] \in {"TRSE?", "TRLV?", "TRSL?", "TRMD?", "TRCP?", "SAST?", "INR?", "WF?"}

\* C16, as the specification states it: in every operation each command
\* written is followed by exactly one read before the next command is
\* written, and each read follows a write.
C16_WritesAndReadsAlternate ==
    pc = "returned" =>
        \A k \in 1..Len(log) :
            IF log[k].dir = "w"
            THEN k < Len(log) /\ log[k + 1].dir = "r"
            ELSE k > 1 /\ log[k - 1].dir = "w"

\* C16, amended: in every operation each query written is followed by
\* exactly one read before the next command is written, a command that is
\* not a query (the set commands of set_triggerConfig, ARM, WAIT) is
\* followed by no read, and nothing is read but the reply to a query.
C16_QueriesAreRead ==
    pc = "returned" =>
        \A k \in 1..Len(log) :
            IF log[k].dir = "w"
            THEN IF Asks(log[k].msg)
                 THEN k < Len(log) /\ log[k + 1].dir = "r"
                 ELSE k = Len(log) \/ log[k + 1].dir = "w"
            ELSE k > 1 /\ log[k - 1].dir = "w" /\ Asks(log[k - 1].msg)

C16_Witness ==
    /\ Returned("set_triggerConfig")
    /\ Len(log) = 22
    /\ log[11].dir = "w" /\ ~Asks(log[11].msg)
    /\ log[12].dir = "w" /\ ~Asks(log[12].msg)
    /\ log[13].dir = "w" /\ Asks(log[13].msg)
    /\ log[14].dir = "r"

----------------------------------------------------------------------------
(* The channel token and the source *)

\* C17: a set_triggerConfig call whose source differs from the baseline
\* source, and whose other supplied keys all equal the baseline, writes
\* exactly one set command, the TRSE setup command, and no TRLV, TRSL or
\* TRCP command.
C17_SourceChangeWritesSetupOnly ==
    (/\ Returned("set_triggerConfig")
     /\ "source" \in DOMAIN call.kwargs
     /\ call.kwargs.source # Baseline.source
     /\ \A k \in DOMAIN call.kwargs \ {"source"} : call.kwargs[k] = Baseline[k])
    => /\ Len(SetWrites) = 1
       /\ SetWrites[1][1] = "TRSE"
       /\ \A n \in 1..Len(SetWrites) : SetWrites[n][2] \notin {"TRLV", "TRSL", "TRCP"}

C17_Witness ==
    /\ Returned("set_triggerConfig")
    /\ DOMAIN call.kwargs = {"source"}
    /\ call.kwargs.source # Baseline.source
    /\ Len(SetWrites) = 1
    /\ PostRead.level = Baseline.level

\* the channel token a set command carries
TokenOf(m) == IF GroupOf(m) = "setup" THEN m[4] ELSE m[1]

\* C18: the channel token starts empty; a set_triggerConfig call that
\* supplies source makes that source the token; a call that supplies none
\* keeps the token and writes it into its TRSE, TRLV, TRSL and TRCP commands
\* whatever source the baseline read reports; get_triggerConfig and the
\* return of a call keep the token.
C18_StickyToken ==
    /\ id = ""
    /\ [][(((pc = "idle" /\ call'.op = "set_triggerConfig"
              /\ "source" \in DOMAIN call'.kwargs)
               => (id' = call'.kwargs.source))
           /\ ((pc = "idle" /\ call'.op = "set_triggerConfig"
                /\ "source" \notin DOMAIN call'.kwargs)
               => (id' = id
                   /\ \A n \in 1..Len(SetWrites') :
                         (GroupOf(SetWrites'[n]) # "mode")
                             => (TokenOf(SetWrites'[n]) = id)))
           /\ ((pc = "idle" /\ call'.op = "get_triggerConfig") => (id' = id))
           /\ ((pc = "returned") => (id' = id)))]_vars

\* a call without source after a call that supplied one the oscilloscope
\* did not take over: the baseline reports another source than the token
C18_Witness ==
    /\ Returned("set_triggerConfig")
    /\ "source" \notin DOMAIN call.kwargs
    /\ id = "C2"
    /\ Baseline.source = "C1"
    /\ log[2].msg[4] = "C1"
    /\ \E n \in 1..Len(SetWrites) :
           GroupOf(SetWrites[n]) = "level" /\ SetWrites[n][1] = "C2"

----------------------------------------------------------------------------
(* The order of the set commands *)

Rank(g) ==
    CASE g = "setup" -> 1 [] g = "level" -> 2 [] g = "coupling" -> 3
      [] g = "slope" -> 4 [] g = "mode" -> 5 [] OTHER -> 0

\* C19: the set commands of one set_triggerConfig call are written in the
\* order setup, level, coupling, slope, mode, in whatever order the caller
\* wrote the keys; the setup command comes before the level, coupling and
\* slope commands.
C19_FixedCommandOrder ==
    Returned("set_triggerConfig") =>
        \A a, b \in 1..Len(SetWrites) :
            a < b => Rank(GroupOf(SetWrites[a])) < Rank(GroupOf(SetWrites[b]))

\* the caller wrote the slope before the source, and both are dirty
C19_Witness ==
    /\ Returned("set_triggerConfig")
    /\ Len(call.order) >= 2
    /\ call.order[1] = "slope"
    /\ call.order[2] = "source"
    /\ Len(SetWrites) = 2
    /\ GroupOf(SetWrites[1]) = "setup"
    /\ GroupOf(SetWrites[2]) = "slope"

----------------------------------------------------------------------------
(* The shared trigger cache *)

\* what one shared mapping holds after the events of the log: the
\* configuration of the latest read by any caller, with the supplied values
\* of A stored over it when that read is the baseline read of A
SharedContent ==
    LET last == CHOOSE k \in DOMAIN log :
                    log[k].dir = "r" /\ \A j \in DOMAIN log : j > k => log[j].dir = "w"
        cfg  == ConfigRead(SubSeq(log, last - 9, last))
    IN IF log[last].by = "A" /\ pc.A = "writing"
       THEN [k \in Keys |-> IF k \in DOMAIN call.A.kwargs THEN call.A.kwargs[k] ELSE cfg[k]]
       ELSE cfg

\* the set command m carries the values of the configuration c
Carries(m, c) ==
    CASE GroupOf(m) = "setup"    -> m[2] = c.type /\ m[6] = c.hold_type /\ m[8] = c.hold_value1
      [] GroupOf(m) = "level"    -> SubSeq(m, 3, Len(m)) = LevelTokens(c.level)
      [] GroupOf(m) = "coupling" -> m[3] = c.coupling
      [] GroupOf(m) = "slope"    -> m[3] = c.slope
      [] GroupOf(m) = "mode"     -> m[2] = c.mode

\* C20: the trigger cache is one mapping shared by reference.  A
\* configuration returned earlier shows, when it is read later, what the
\* latest get_triggerConfig or set_triggerConfig of any caller left in the
\* cache; the baseline held inside set_triggerConfig does too, so a set
\* command written after another caller's read carries the values of that
\* read and not the desired ones.
C20_SharedByReference ==
    [][((pc.B = "returned" /\ pc'.B = "looked") => (ret'.B.seen = SharedContent'))
       /\ ((Len(log') = Len(log) + 1) => Carries(log'[Len(log')].msg, SharedContent))]_vars

\* B was returned the configuration before A stored its values and read it
\* afterwards, C read between the baseline read of A and its write of the
\* mode command
C20_Witness ==
    /\ pc.A = "returned"
    /\ pc.B = "looked"
    /\ ret.B.seen # ret.B.held
    /\ "mode" \in DOMAIN call.A.kwargs
    /\ \E k \in DOMAIN log :
          /\ log[k].by = "A"
          /\ log[k].dir = "w"
          /\ log[k].msg[1] = "TRMD"
          /\ log[k].msg[2] # call.A.kwargs.mode
          /\ log[k - 1].by = "C"

====
